---- MODULE Spec2Model ----
(***************************************************************************)
(* Model of the valuation route of Server.js (POST /api/valuation): the    *)
(* request validator, the postcode normaliser and its recovery, the tiered *)
(* rent fallback, the sale fallback and the result assembly; and of the    *)
(* valuation form of App.jsx that posts to it.                             *)
(*                                                                         *)
(* A string of the program is a sequence of one-character strings, so that *)
(* trim, toUpperCase, replace, slice, split and the postcode regular       *)
(* expression are computed character by character.                         *)
(***************************************************************************)
EXTENDS Integers, Sequences, FiniteSets, TLC

VARIABLES reqs, form

vars == <<reqs, form>>

(***************************************************************************)
(* Characters                                                              *)
(***************************************************************************)
UpperLetters == {"A", "R"}
LowerLetters == {"a", "r"}
Digits == {"1"}
WhitespaceChars == {" ", "\t"}

UpperChar(c) == IF c = "a" THEN "A" ELSE IF c = "r" THEN "R" ELSE c

ToUpperCase(s) == [i \in 1..Len(s) |-> UpperChar(s[i])]

IsSpace(c) == c \in WhitespaceChars

\* the class [A-Z] under the i flag
IsLetter(c) == c \in UpperLetters \cup LowerLetters

\* the class [0-9]
IsDigit(c) == c \in Digits

\* the class [0-9R] under the i flag
IsDigitOrR(c) == IsDigit(c) \/ c \in {"R", "r"}

\* the class [0-9A-Z] under the i flag
IsAlnum(c) == IsDigit(c) \/ IsLetter(c)

RECURSIVE TrimStart(_)
TrimStart(s) ==
  IF s = <<>> THEN <<>>
  ELSE IF IsSpace(Head(s)) THEN TrimStart(Tail(s)) ELSE s

RECURSIVE TrimEnd(_)
TrimEnd(s) ==
  IF s = <<>> THEN <<>>
  ELSE IF IsSpace(s[Len(s)]) THEN TrimEnd(SubSeq(s, 1, Len(s) - 1)) ELSE s

Trim(s) == TrimEnd(TrimStart(s))

\* replace(/\s+/g, " ")
RECURSIVE CollapseWhitespace(_)
CollapseWhitespace(s) ==
  IF s = <<>> THEN <<>>
  ELSE IF IsSpace(Head(s))
       THEN <<" ">> \o CollapseWhitespace(TrimStart(Tail(s)))
       ELSE <<Head(s)>> \o CollapseWhitespace(Tail(s))

\* replace(/[^A-Z0-9]/gi, "")
RECURSIVE StripNonAlnum(_)
StripNonAlnum(s) ==
  IF s = <<>> THEN <<>>
  ELSE IF IsAlnum(Head(s))
       THEN <<Head(s)>> \o StripNonAlnum(Tail(s))
       ELSE StripNonAlnum(Tail(s))

(***************************************************************************)
(* Helper functions of Server.js                                           *)
(***************************************************************************)
\* normalizePostcode without the collapse of whitespace runs
normalizePostcode_NoCollapse(pc) ==
  IF pc = <<>> THEN <<>> ELSE ToUpperCase(Trim(pc))

normalizePostcode(pc) ==
  IF pc = <<>> THEN <<>> ELSE CollapseWhitespace(ToUpperCase(Trim(pc)))

\* /^[A-Z]{1,2}[0-9R][0-9A-Z]? [0-9][A-Z]{2}$/i : a match exists for some
\* number n of leading letters and some number m of optional characters
isValidUKPostcode(postcode) ==
  \E n \in {1, 2}, m \in {0, 1} :
    /\ Len(postcode) = n + 1 + m + 4
    /\ \A i \in 1..n : IsLetter(postcode[i])
    /\ IsDigitOrR(postcode[n + 1])
    /\ \A i \in (n + 2)..(n + 1 + m) : IsAlnum(postcode[i])
    /\ postcode[n + m + 2] = " "
    /\ IsDigit(postcode[n + m + 3])
    /\ IsLetter(postcode[n + m + 4])
    /\ IsLetter(postcode[n + m + 5])

\* split(" ")[0]
RECURSIVE getOutcode(_)
getOutcode(fullPostcode) ==
  IF fullPostcode = <<>> \/ Head(fullPostcode) = " " THEN <<>>
  ELSE <<Head(fullPostcode)>> \o getOutcode(Tail(fullPostcode))

MinCleanedLen == 5
MaxCleanedLen == 7
InwardLen == 3

\* tryAutoFormatPostcode without the strip of non-alphanumeric characters
tryAutoFormatPostcode_NoStrip(input) ==
  LET cleaned == ToUpperCase(input)
      formatted == SubSeq(cleaned, 1, Len(cleaned) - InwardLen) \o <<" ">>
                   \o SubSeq(cleaned, Len(cleaned) - InwardLen + 1, Len(cleaned))
  IN IF Len(cleaned) < MinCleanedLen \/ Len(cleaned) > MaxCleanedLen THEN <<>>
     ELSE IF isValidUKPostcode(formatted) THEN formatted ELSE <<>>

\* tryAutoFormatPostcode without toUpperCase()
tryAutoFormatPostcode_NoUpper(input) ==
  LET cleaned == StripNonAlnum(input)
      formatted == SubSeq(cleaned, 1, Len(cleaned) - InwardLen) \o <<" ">>
                   \o SubSeq(cleaned, Len(cleaned) - InwardLen + 1, Len(cleaned))
  IN IF Len(cleaned) < MinCleanedLen \/ Len(cleaned) > MaxCleanedLen THEN <<>>
     ELSE IF isValidUKPostcode(formatted) THEN formatted ELSE <<>>

\* null is the empty sequence: every string the function returns is non-empty
tryAutoFormatPostcode(input) ==
  LET cleaned == ToUpperCase(StripNonAlnum(input))
      formatted == SubSeq(cleaned, 1, Len(cleaned) - InwardLen) \o <<" ">>
                   \o SubSeq(cleaned, Len(cleaned) - InwardLen + 1, Len(cleaned))
  IN IF Len(cleaned) < MinCleanedLen \/ Len(cleaned) > MaxCleanedLen THEN <<>>
     ELSE IF isValidUKPostcode(formatted) THEN formatted ELSE <<>>

(***************************************************************************)
(* JSON values of the request body: a field is undefined, a string or a    *)
(* number; v is the text of the value                                      *)
(***************************************************************************)
JUndefined == [t |-> "undefined", v |-> ""]
JString(v) == [t |-> "string", v |-> v]
JNumber(v) == [t |-> "number", v |-> v]

\* !x is false for x : only undefined, "" and 0 occur as falsy values
Truthy(x) ==
  \/ x.t = "string" /\ x.v # ""
  \/ x.t = "number" /\ x.v # "0"

\* Array.prototype.includes on an array of strings: SameValueZero, so a
\* number is never equal to a string
Includes(strings, x) == x.t = "string" /\ x.v \in strings

validPropertyTypes ==
  {"detached", "semi-detached", "terraced", "flat", "maisonette", "bungalow"}
validPurposes == {"sale", "rent"}
validBedrooms == {"1", "2", "3", "4"}

ErrMissing == "Missing required fields: postalCode, propertyType, purpose"
ErrPropertyType == "Invalid property type. Must be one of: ..."
ErrPurpose == "Purpose must be 'sale' or 'rent'"
ErrBedrooms == "Number of bedrooms (1-4) is required for rental estimates"
ErrPostcode == "Invalid UK postcode format. Example: SW1A 1AA"
ErrNoRent == "No rental market data available for this area. Try a nearby postcode."
ErrNoSale == "No recent sale data for these properties in this postcode."
ErrUnexpected == "Failed to fetch valuation. Please try again later."

BadRequest == 400
NotFound == 404
ServerError == 500
OK == 200

(***************************************************************************)
(* Upstream: what one axios.get can produce.  A resolved call carries the  *)
(* body of a 2xx response; a rejected one carries error.code and, for a    *)
(* non-2xx answer, error.response with its body.                           *)
(***************************************************************************)
MsgType == "Property type not available in this area"
MsgOther == "No data found for this postcode"

\* message.includes("type")
MessageIncludesType(m) == m = MsgType

\* a value of a payload field: undefined, a number or a string
Undefined == [t |-> "undefined", n |-> 0, s |-> ""]
Num(n) == [t |-> "number", n |-> n, s |-> ""]
Str(s) == [t |-> "string", n |-> 0, s |-> s]

\* the data block of a sold-prices payload; <<>> is an absent range
NoDataBlock ==
  [present |-> FALSE, average |-> Undefined, range70 |-> <<>>,
   range90 |-> <<>>, points_analysed |-> Undefined]

\* a payload none of whose fields is present
EmptyBody ==
  [isNull |-> FALSE, status |-> "success", code |-> "", message |-> "",
   postcode |-> <<>>, rental_demand_rating |-> "", demand_rating |-> "",
   total_for_rent |-> Undefined, days_on_market |-> Undefined,
   months_of_inventory |-> Undefined, rent_average |-> Undefined,
   yield_average |-> Undefined, data |-> NoDataBlock]

NullBody == [EmptyBody EXCEPT !.isNull = TRUE, !.status = ""]

\* data.rent?.average as the provider may send it
RentAverages == {Undefined, Num(0), Num(5), Num(1000), Str("1000"), Str("n/a")}

\* rent payloads without an error status; "" and <<>> are absent fields;
\* the market figures come all together or not at all
SuccessBodies(key) ==
  {[EmptyBody EXCEPT !.postcode = p,
                     !.rental_demand_rating = d[1], !.demand_rating = d[2],
                     !.rent_average = a,
                     !.total_for_rent = m[1], !.days_on_market = m[2],
                     !.months_of_inventory = m[3], !.yield_average = m[4]] :
     p \in {<<>>, key},
     d \in {<<"", "">>, <<"High", "">>, <<"", "Low">>},
     a \in RentAverages,
     m \in {<<Undefined, Undefined, Undefined, Undefined>>,
            <<Num(12), Num(30), Num(4), Str("5.1%")>>}}

\* the data blocks of a sold-prices payload: absent, empty, average only, full
DataBlocks ==
  {NoDataBlock,
   [NoDataBlock EXCEPT !.present = TRUE],
   [NoDataBlock EXCEPT !.present = TRUE, !.average = Num(250000)],
   [present |-> TRUE, average |-> Num(500000), range70 |-> <<400000, 600000>>,
    range90 |-> <<300000, 700000>>, points_analysed |-> Num(42)]}

\* sold-prices payloads without an error status
SaleSuccessBodies(key) ==
  {[EmptyBody EXCEPT !.postcode = p, !.data = blk] :
     p \in {<<>>, key}, blk \in DataBlocks}

\* bodies with status = "error", a provider code and possibly a message
ErrorBodies ==
  {[EmptyBody EXCEPT !.status = "error", !.code = c[1], !.message = c[2]] :
     c \in {<<"902", MsgType>>, <<"902", MsgOther>>, <<"902", "">>,
            <<"901", MsgType>>}}

Resolved(body) ==
  [kind |-> "resolve", code |-> "", hasResponse |-> TRUE, body |-> body]
Rejected(code, hasResponse, body) ==
  [kind |-> "reject", code |-> code, hasResponse |-> hasResponse, body |-> body]

\* every way one call can end without a payload
FailedOutcomes ==
  {Resolved(b) : b \in ErrorBodies \cup {NullBody}}
  \cup {Rejected("ERR_BAD_REQUEST", TRUE, b) : b \in ErrorBodies}
  \cup {Rejected("ECONNABORTED", FALSE, NullBody),
        Rejected("ENOTFOUND", FALSE, NullBody)}

\* every way one call of callPropertyDataAPI(url) to a rent endpoint can end
Outcomes(key) ==
  {Resolved(b) : b \in SuccessBodies(key)} \cup FailedOutcomes

\* every way one call to the sold-prices endpoint can end
SaleOutcomes(key) ==
  {Resolved(b) : b \in SaleSuccessBodies(key)} \cup FailedOutcomes

\* the classification of section 4.2
IsSuccess(o) == o.kind = "resolve" /\ ~o.body.isNull /\ o.body.status # "error"
IsError(o) ==
  \/ o.kind = "resolve" /\ ~o.body.isNull /\ o.body.status = "error"
  \/ o.kind = "reject" /\ o.hasResponse
IsTimeout(o) == o.kind = "reject" /\ ~o.hasResponse /\ o.code = "ECONNABORTED"
IsNetworkFailure(o) ==
  o.kind = "reject" /\ ~o.hasResponse /\ o.code # "ECONNABORTED"
IsMalformed(o) == o.kind = "resolve" /\ o.body.isNull
\* the provider says the property type is unsupported for the area
IsTypeUnsupported(o) ==
  IsError(o) /\ o.body.code = "902" /\ MessageIncludesType(o.body.message)

(***************************************************************************)
(* One in-flight request: the locals of the route handler, its position,   *)
(* the Gateway calls it has issued with their outcomes, and the responses  *)
(* it has sent.                                                            *)
(***************************************************************************)
MaxAge == 12

\* the fields of both result variants; a field the variant does not have
\* is Undefined, "" or <<>>, and a null note is <<>>
NoResult ==
  [type |-> "", postcode |-> <<>>, rentalDemand |-> "",
   totalForRent |-> Undefined, daysOnMarket |-> Undefined,
   monthsOfInventory |-> Undefined, averageRent |-> Undefined,
   originalAverageRent |-> Undefined, yield |-> Undefined,
   propertyType |-> <<>>, average |-> Undefined, range70 |-> <<>>,
   range90 |-> <<>>, pointsAnalysed |-> Undefined, note |-> <<>>]

NewHandler(body) ==
  [body |-> body, pc |-> "received", fullPostcode |-> <<>>, outcode |-> <<>>,
   data |-> NullBody, saleData |-> NullBody, usedType |-> "",
   calls |-> <<>>, outcomes |-> <<>>, sent |-> <<>>]

\* res.status(status).json({ error })
SendError(h, status, error) ==
  [h EXCEPT !.pc = "done",
            !.sent = Append(@, [status |-> status, error |-> error,
                                result |-> NoResult])]

\* res.json(result)
SendResult(h, result) ==
  [h EXCEPT !.pc = "done",
            !.sent = Append(@, [status |-> OK, error |-> "",
                                result |-> result])]

\* the route without its outer catch: the exception leaves the handler
CatchUnexpected_Unhandled(h) == [h EXCEPT !.pc = "done"]

\* the outer catch of the route
CatchUnexpected(h) == SendError(h, ServerError, ErrUnexpected)

\* await callPropertyDataAPI(url): the handler is suspended at pc = tier
IssueCall(h, tier, endpoint, postcode, type) ==
  [h EXCEPT !.pc = tier,
            !.calls = Append(@, [tier |-> tier, endpoint |-> endpoint,
                                 postcode |-> postcode, type |-> type,
                                 max_age |-> IF endpoint = "sold-prices"
                                             THEN MaxAge ELSE 0])]

\* !postalCode for a postcode held as a sequence of characters
TruthyChars(x) == x.t = "string" /\ x.v # <<>>

\* the validation of lines 77-99: the error to send, or "" to go on
ValidationError(body) ==
  IF ~TruthyChars(body.postalCode) \/ ~Truthy(body.propertyType)
     \/ ~Truthy(body.purpose)
  THEN ErrMissing
  ELSE IF ~Includes(validPropertyTypes, body.propertyType) THEN ErrPropertyType
  ELSE IF ~Includes(validPurposes, body.purpose) THEN ErrPurpose
  ELSE IF body.purpose = JString("rent")
          /\ (~Truthy(body.bedrooms) \/ ~Includes(validBedrooms, body.bedrooms))
  THEN ErrBedrooms
  ELSE ""

\* Step 1 without the auto-format recovery
ResolvePostcode_NoRecovery(postalCode) ==
  LET fullPostcode == normalizePostcode(postalCode)
  IN IF isValidUKPostcode(fullPostcode) THEN fullPostcode ELSE <<>>

\* Step 1: the postcode to use, or <<>> when it cannot be recovered
ResolvePostcode(postalCode) ==
  LET fullPostcode == normalizePostcode(postalCode)
  IN IF isValidUKPostcode(fullPostcode) THEN fullPostcode
     ELSE tryAutoFormatPostcode(postalCode)

\* Step 2 with the test on the purpose inverted
StartPurpose_Swapped(h) ==
  IF h.body.purpose # JString("rent")
  THEN IssueCall(h, "try1", "demand-rent", h.outcode, "")
  ELSE IssueCall([h EXCEPT !.usedType = h.body.propertyType.v],
                 "sale1", "sold-prices", h.fullPostcode, h.body.propertyType.v)

\* Step 2, up to the first await
StartPurpose(h) ==
  IF h.body.purpose = JString("rent")
  THEN IssueCall(h, "try1", "demand-rent", h.outcode, "")
  ELSE IssueCall([h EXCEPT !.usedType = h.body.propertyType.v],
                 "sale1", "sold-prices", h.fullPostcode, h.body.propertyType.v)

\* the handler with the postcode examined before the fields
Entry_PostcodeFirst(h) ==
  LET error == ValidationError(h.body)
      fullPostcode == ResolvePostcode(h.body.postalCode.v)
  IN IF fullPostcode = <<>> THEN SendError(h, BadRequest, ErrPostcode)
     ELSE IF error # "" THEN SendError(h, BadRequest, error)
     ELSE StartPurpose([h EXCEPT !.fullPostcode = fullPostcode,
                                 !.outcode = getOutcode(fullPostcode)])

\* the handler from its entry to its first await or response
Entry(h) ==
  LET error == ValidationError(h.body)
      fullPostcode == ResolvePostcode(h.body.postalCode.v)
  IN IF error # "" THEN SendError(h, BadRequest, error)
     ELSE IF fullPostcode = <<>> THEN SendError(h, BadRequest, ErrPostcode)
     ELSE StartPurpose([h EXCEPT !.fullPostcode = fullPostcode,
                                 !.outcode = getOutcode(fullPostcode)])

(***************************************************************************)
(* Rent path                                                               *)
(***************************************************************************)
\* "N/A" for a falsy field: x || "N/A"
OrNA(x) == IF x = "" THEN "N/A" ELSE x

\* !x is false for a payload value
TruthyValue(x) ==
  \/ x.t = "number" /\ x.n # 0
  \/ x.t = "string" /\ x.s # ""

\* x || "N/A" and x || 0 on a payload value
OrValue(x, default) == IF TruthyValue(x) THEN x ELSE default

\* the strings Number() converts to a number
NumericStrings == {"5", "1000"}

\* !isNaN(x)
IsNumeric(x) ==
  \/ x.t = "number"
  \/ x.t = "string" /\ x.s \in NumericStrings

\* parseFloat on a number or a numeric string
ParseFloat(x) ==
  IF x.t = "number" THEN x.n
  ELSE CASE x.s = "5" -> 5 [] x.s = "1000" -> 1000

\* parseInt(bedrooms, 10) on a validated bedrooms field
ParseInt(x) ==
  CASE x.v = "1" -> 1 [] x.v = "2" -> 2 [] x.v = "3" -> 3 [] x.v = "4" -> 4
    [] OTHER -> 0

\* multipliers[bed] || 1.0, in tenths
MultiplierTenths(bed) ==
  CASE bed = 1 -> 8 [] bed = 2 -> 10 [] bed = 3 -> 13 [] bed = 4 -> 16
    [] OTHER -> 10

\* Math.round(base * multiplier): halves go up
RoundedProduct(base, tenths) == (base * tenths + 5) \div 10

AdjustmentNote == "Adjusted from area average for a bedroom count:"

\* lines 171-185: adjustedRent and adjustmentNote ("" is <<>>)
Adjust(baseRent, bedrooms) ==
  IF TruthyValue(baseRent) /\ IsNumeric(baseRent)
  THEN [adjustedRent |->
          Num(RoundedProduct(ParseFloat(baseRent),
                             MultiplierTenths(ParseInt(bedrooms)))),
        adjustmentNote |->
          <<AdjustmentNote, ParseFloat(baseRent), ParseInt(bedrooms)>>]
  ELSE [adjustedRent |-> Str("N/A"), adjustmentNote |-> <<>>]

\* lines 170-201; data.rent on a null data throws into the outer catch
RentResult(h) ==
  IF h.data.isNull THEN CatchUnexpected(h)
  ELSE LET adjusted == Adjust(h.data.rent_average, h.body.bedrooms)
       IN SendResult(h,
            [NoResult EXCEPT
               !.type = "rent",
               !.postcode = IF h.data.postcode # <<>> THEN h.data.postcode
                            ELSE h.fullPostcode,
               !.rentalDemand = OrNA(IF h.data.rental_demand_rating # ""
                                     THEN h.data.rental_demand_rating
                                     ELSE h.data.demand_rating),
               !.totalForRent = OrValue(h.data.total_for_rent, Str("N/A")),
               !.daysOnMarket = OrValue(h.data.days_on_market, Str("N/A")),
               !.monthsOfInventory =
                  OrValue(h.data.months_of_inventory, Str("N/A")),
               !.averageRent = adjusted.adjustedRent,
               !.originalAverageRent =
                  OrValue(h.data.rent_average, Str("N/A")),
               !.yield = OrValue(h.data.yield_average, Str("N/A")),
               !.note = adjusted.adjustmentNote])

\* the body of a demand-rent try: data after the try/catch of one tier
\* (response.data.status on a null body throws and is caught by the tier)
DemandRentData(h, o) ==
  IF o.kind = "resolve" /\ ~o.body.isNull /\ o.body.status # "error"
  THEN o.body ELSE h.data

OutcodeThreshold == 3

\* slice(1): the outcode without its first character
ParentOutcode_DropFirst(outcode) == SubSeq(outcode, 2, Len(outcode))

\* slice(0, -1)
ParentOutcode(outcode) == SubSeq(outcode, 1, Len(outcode) - 1)

\* Try 3 as a second attempt of the outcode query
LocalMarket_RetryOutcode(h) == IssueCall(h, "try3", "demand-rent", h.outcode, "")

LocalMarket(h) == IssueCall(h, "try3", "local-market", h.fullPostcode, "")

\* Try 2 guarded by the outcode length alone
AfterTry1_NoDataCheck(h) ==
  IF Len(h.outcode) > OutcodeThreshold
  THEN IssueCall(h, "try2", "demand-rent", ParentOutcode(h.outcode), "")
  ELSE IF h.data.isNull THEN LocalMarket(h)
  ELSE RentResult(h)

\* after Try 1: Try 2 when there is no data and the outcode is long,
\* else Try 3 when there is no data, else the result
AfterTry1(h) ==
  IF h.data.isNull /\ Len(h.outcode) > OutcodeThreshold
  THEN IssueCall(h, "try2", "demand-rent", ParentOutcode(h.outcode), "")
  ELSE IF h.data.isNull THEN LocalMarket(h)
  ELSE RentResult(h)

AfterTry2(h) == IF h.data.isNull THEN LocalMarket(h) ELSE RentResult(h)

\* Try 3: any resolved call supplies data, a rejected one ends with 404
AfterTry3(h, o) ==
  IF o.kind = "resolve" THEN RentResult([h EXCEPT !.data = o.body])
  ELSE SendError(h, NotFound, ErrNoRent)

Record(h, o) == [h EXCEPT !.outcomes = Append(@, o)]

RentTry1Done(h, o) == AfterTry1([Record(h, o) EXCEPT !.data = DemandRentData(h, o)])
RentTry2Done(h, o) == AfterTry2([Record(h, o) EXCEPT !.data = DemandRentData(h, o)])
RentTry3Done(h, o) == AfterTry3(Record(h, o), o)

(***************************************************************************)
(* Sale path                                                               *)
(***************************************************************************)
NotFoundSuffix == "(not found - showing area average)"
SubstitutionNote == "No recent sales for this type in this postcode. Showing overall area average."

\* the sale result with range70 read from the 90pc_range field
SaleResult_Range90For70(h) ==
  SendResult(h,
    [NoResult EXCEPT
       !.type = "sale",
       !.postcode = IF h.saleData.postcode # <<>> THEN h.saleData.postcode
                    ELSE h.fullPostcode,
       !.propertyType = IF h.usedType = "all"
                        THEN <<h.body.propertyType.v, NotFoundSuffix>>
                        ELSE <<h.body.propertyType.v>>,
       !.average = OrValue(h.saleData.data.average, Str("N/A")),
       !.range70 = h.saleData.data.range90,
       !.range90 = h.saleData.data.range90,
       !.pointsAnalysed = OrValue(h.saleData.data.points_analysed, Num(0)),
       !.note = IF h.usedType = "all" THEN <<SubstitutionNote>> ELSE <<>>])

\* the sale result with the note test inverted
SaleResult_NoteInverted(h) ==
  SendResult(h,
    [NoResult EXCEPT
       !.type = "sale",
       !.postcode = IF h.saleData.postcode # <<>> THEN h.saleData.postcode
                    ELSE h.fullPostcode,
       !.propertyType = IF h.usedType = "all"
                        THEN <<h.body.propertyType.v, NotFoundSuffix>>
                        ELSE <<h.body.propertyType.v>>,
       !.average = OrValue(h.saleData.data.average, Str("N/A")),
       !.range70 = h.saleData.data.range70,
       !.range90 = h.saleData.data.range90,
       !.pointsAnalysed = OrValue(h.saleData.data.points_analysed, Num(0)),
       !.note = IF h.usedType = "all" THEN <<>> ELSE <<SubstitutionNote>>])

\* lines 241-255; saleData is a non-null payload here
SaleResult(h) ==
  SendResult(h,
    [NoResult EXCEPT
       !.type = "sale",
       !.postcode = IF h.saleData.postcode # <<>> THEN h.saleData.postcode
                    ELSE h.fullPostcode,
       !.propertyType = IF h.usedType = "all"
                        THEN <<h.body.propertyType.v, NotFoundSuffix>>
                        ELSE <<h.body.propertyType.v>>,
       !.average = OrValue(h.saleData.data.average, Str("N/A")),
       !.range70 = h.saleData.data.range70,
       !.range90 = h.saleData.data.range90,
       !.pointsAnalysed = OrValue(h.saleData.data.points_analysed, Num(0)),
       !.note = IF h.usedType = "all" THEN <<SubstitutionNote>> ELSE <<>>])

\* the condition of line 220 on the provider code alone
CatchFirstSale_CodeOnly(o) ==
  IF o.kind = "reject" /\ o.hasResponse /\ o.body.code = "902"
  THEN "fallback" ELSE "rethrow"

\* the condition of line 220 on the error caught at line 219:
\* "fallback", "rethrow", or "throw" when message.includes is called on an
\* undefined message.  An error thrown inside the try (status "error" body,
\* null body) has no response property.
CatchFirstSale(o) ==
  IF o.kind = "reject" /\ o.hasResponse /\ o.body.code = "902"
  THEN IF o.body.message = "" THEN "throw"
       ELSE IF MessageIncludesType(o.body.message) THEN "fallback"
       ELSE "rethrow"
  ELSE "rethrow"

\* the first sale call with every failure answered as "no sale data"
SaleFirstDone_NoDataOnAnyError(h0, o) ==
  LET h == Record(h0, o)
  IN IF o.kind = "resolve" /\ ~o.body.isNull /\ o.body.status # "error"
     THEN SaleResult([h EXCEPT !.saleData = o.body])
     ELSE SendError(h, NotFound, ErrNoSale)

SaleFirstDone(h0, o) ==
  LET h == Record(h0, o)
  IN IF o.kind = "resolve" /\ ~o.body.isNull /\ o.body.status # "error"
     THEN SaleResult([h EXCEPT !.saleData = o.body])
     ELSE IF CatchFirstSale(o) = "fallback"
          THEN IssueCall([h EXCEPT !.saleData = IF o.kind = "resolve"
                                                 THEN o.body ELSE @],
                         "sale2", "sold-prices", h.fullPostcode, "")
          ELSE CatchUnexpected(h)

SaleFallbackDone(h0, o) ==
  LET h == Record(h0, o)
  IN IF o.kind = "resolve" /\ ~o.body.isNull /\ o.body.status # "error"
     THEN SaleResult([h EXCEPT !.saleData = o.body, !.usedType = "all"])
     ELSE SendError(h, NotFound, ErrNoSale)

(***************************************************************************)
(* Request bodies                                                          *)
(***************************************************************************)
RawPostcodes ==
  { <<"A", "1", " ", "1", "A", "A">>,
    <<"a", "r", "1", " ", "1", "a", "a">>,
    <<"A", "A", "1", "A", " ", "1", "A", "A">>,
    <<"a", "r", "1", "a", "1", "a", "a">>,
    <<" ", "A", "1", "\t", " ", "1", "A", "A", " ">>,
    <<"A", "1", "-", "1", "A", "A">>,
    <<"A", "1", " ", "1", "A">>,
    <<"1", "1", " ", "1", "A", "A">>,
    <<"-">> }

\* the postal code is held as a sequence of characters, also when undefined
PostalCodeValues ==
  {[t |-> "undefined", v |-> <<>>], [t |-> "string", v |-> <<>>]}
  \cup {[t |-> "string", v |-> raw] : raw \in RawPostcodes}
PropertyTypeValues ==
  {JUndefined, JString("flat"), JString("bungalow"), JString("castle")}
PurposeValues ==
  {JUndefined, JString("sale"), JString("rent"), JString("lease")}
BedroomsValues ==
  {JUndefined, JString("1"), JString("2"), JString("3"), JString("4"),
   JString("5"), JNumber("2")}

RequestBodies ==
  [postalCode : PostalCodeValues, propertyType : PropertyTypeValues,
   purpose : PurposeValues, bedrooms : BedroomsValues]

\* every string of at most MaxRawLen characters over a small alphabet
MaxRawLen == 7
Alphabet == {"A", "r", "1", " ", "-"}
RawStrings == UNION {[1..k -> Alphabet] : k \in 0..MaxRawLen}

PostcodeBodies ==
  [postalCode : {[t |-> "string", v |-> raw] : raw \in RawStrings},
   propertyType : {JString("flat")},
   purpose : {JString("sale"), JString("rent")},
   bedrooms : {JString("2")}]

(***************************************************************************)
(* The valuation form of App.jsx.  name and email are never read by        *)
(* handleSubmit and are left out of formData.                              *)
(***************************************************************************)
\* useState of lines 5-17; null is <<>>
EmptyFormData ==
  [postalCode |-> <<>>, propertyType |-> "", purpose |-> "", bedrooms |-> "",
   floorArea |-> ""]

\* the component with this formData before any submission; alert is the text
\* of the last alert shown, payload and res the locals of a running
\* handleSubmit (res is held between the two awaits)
InitialForm(formData) ==
  [formData |-> formData, showResult |-> FALSE, valuation |-> <<>>,
   loading |-> FALSE, pc |-> "idle", payload |-> <<>>, res |-> <<>>,
   alert |-> ""]

SuffixLen == 3

\* replace(/(.{3})$/, " $1")
InsertSpace(s) ==
  IF Len(s) >= SuffixLen
  THEN SubSeq(s, 1, Len(s) - SuffixLen) \o <<" ">>
       \o SubSeq(s, Len(s) - SuffixLen + 1, Len(s))
  ELSE s

\* handleChange on the postalCode input: what is stored for a typed value
formatPostalCode(value) ==
  Trim(InsertSpace(StripNonAlnum(ToUpperCase(value))))

\* the values of the select options, the placeholder option included
propertyTypeOptions ==
  {"", "detached", "semi-detached", "terraced", "flat", "maisonette",
   "bungalow"}
purposeOptions == {"", "sale", "rent"}
bedroomsOptions == {"", "1", "2", "3", "4"}
\* the floor area input: empty, or a number within min and max
floorAreaValues == {"", "250"}

\* texts of the postalCode input (maxLength 8)
TypedPostalCodes ==
  { <<>>,
    <<"a", "1", "1", "a", "a">>,
    <<"a", "r", "1", "a", " ", "1", "a", "a">>,
    <<"A", "1", " ", "1", "A">>,
    <<"1", "1", "-", "1", "a", "a">>,
    <<"a", "1">> }

\* every formData handleChange can leave in the component
FormDatas ==
  [postalCode : {formatPostalCode(value) : value \in TypedPostalCodes},
   propertyType : propertyTypeOptions, purpose : purposeOptions,
   bedrooms : bedroomsOptions, floorArea : floorAreaValues]

\* postcodeRegex.test of line 36: the expression of isValidUKPostcode
postcodeRegexTest(postalCode) ==
  \E n \in {1, 2}, m \in {0, 1} :
    /\ Len(postalCode) = n + 1 + m + 4
    /\ \A i \in 1..n : IsLetter(postalCode[i])
    /\ IsDigitOrR(postalCode[n + 1])
    /\ \A i \in (n + 2)..(n + 1 + m) : IsAlnum(postalCode[i])
    /\ postalCode[n + m + 2] = " "
    /\ IsDigit(postalCode[n + m + 3])
    /\ IsLetter(postalCode[n + m + 4])
    /\ IsLetter(postalCode[n + m + 5])

AlertPostcode == "Please enter a valid UK postcode (e.g. SW1A 1AA)"
AlertBedrooms == "Please select number of bedrooms for rental estimate"

\* the checks of handleSubmit without the test of the postcode
ClientCheck_NoPostcodeTest(formData) ==
  IF formData.purpose = "rent" /\ formData.bedrooms = ""
  THEN AlertBedrooms
  ELSE ""

\* the checks of lines 36-45: the alert to show, or "" to go on
ClientCheck(formData) ==
  IF ~postcodeRegexTest(formData.postalCode) THEN AlertPostcode
  ELSE IF formData.purpose = "rent" /\ formData.bedrooms = ""
  THEN AlertBedrooms
  ELSE ""

\* the browser fires the submit event only when every required control that
\* is rendered has a value (bedrooms is rendered for rent only)
RequiredFilled(formData) ==
  /\ formData.postalCode # <<>>
  /\ formData.propertyType # ""
  /\ formData.purpose # ""
  /\ formData.purpose = "rent" => formData.bedrooms # ""

\* the payload of lines 49-59; a property that is not set is undefined
BuildPayload(formData) ==
  [postalCode |-> [t |-> "string",
                   v |-> ToUpperCase(Trim(formData.postalCode))],
   propertyType |-> JString(formData.propertyType),
   purpose |-> JString(formData.purpose),
   bedrooms |-> IF formData.purpose = "rent"
                THEN JString(formData.bedrooms) ELSE JUndefined,
   floorArea |-> IF formData.purpose = "rent" /\ formData.floorArea # ""
                 THEN JString(formData.floorArea) ELSE JUndefined]

\* what the route destructures from req.body
BodyOf(payload) ==
  [postalCode |-> payload.postalCode, propertyType |-> payload.propertyType,
   purpose |-> payload.purpose, bedrooms |-> payload.bedrooms]

\* the Response of fetch for what the route sent: res.ok (a status from 200
\* to 299) and the object res.json() gives, a result or { error }
ResponseOf(m) ==
  [ok |-> m.status >= 200 /\ m.status <= 299,
   data |-> [error |-> m.error, result |-> m.result]]

(***************************************************************************)
(* Actions: one per synchronous stretch of the handler                     *)
(***************************************************************************)
Requests == {1}

Init ==
  /\ reqs \in [Requests -> {NewHandler(b) : b \in RequestBodies}]
  /\ form = InitialForm(EmptyFormData)

LastKey(h) == h.calls[Len(h.calls)].postcode

Receive(r) ==
  /\ reqs[r].pc = "received"
  /\ reqs' = [reqs EXCEPT ![r] = Entry(@)]
  /\ UNCHANGED form

\* Try 1 with data held in one variable of the module, seen by every handler
Try1Response_SharedData(r) ==
  /\ reqs[r].pc = "try1"
  /\ \E o \in Outcomes(LastKey(reqs[r])) :
       reqs' = [q \in DOMAIN reqs |->
                  IF q = r THEN RentTry1Done(reqs[q], o)
                  ELSE [reqs[q] EXCEPT !.data = DemandRentData(reqs[r], o)]]
  /\ UNCHANGED form

Try1Response(r) ==
  /\ reqs[r].pc = "try1"
  /\ \E o \in Outcomes(LastKey(reqs[r])) :
       reqs' = [reqs EXCEPT ![r] = RentTry1Done(@, o)]
  /\ UNCHANGED form

Try2Response(r) ==
  /\ reqs[r].pc = "try2"
  /\ \E o \in Outcomes(LastKey(reqs[r])) :
       reqs' = [reqs EXCEPT ![r] = RentTry2Done(@, o)]
  /\ UNCHANGED form

Try3Response(r) ==
  /\ reqs[r].pc = "try3"
  /\ \E o \in Outcomes(LastKey(reqs[r])) :
       reqs' = [reqs EXCEPT ![r] = RentTry3Done(@, o)]
  /\ UNCHANGED form

SaleResponse(r) ==
  /\ reqs[r].pc = "sale1"
  /\ \E o \in SaleOutcomes(LastKey(reqs[r])) :
       reqs' = [reqs EXCEPT ![r] = SaleFirstDone(@, o)]
  /\ UNCHANGED form

FallbackResponse(r) ==
  /\ reqs[r].pc = "sale2"
  /\ \E o \in SaleOutcomes(LastKey(reqs[r])) :
       reqs' = [reqs EXCEPT ![r] = SaleFallbackDone(@, o)]
  /\ UNCHANGED form

Next ==
  \E r \in Requests :
    \/ Receive(r)
    \/ Try1Response(r)
    \/ Try2Response(r)
    \/ Try3Response(r)
    \/ SaleResponse(r)
    \/ FallbackResponse(r)

Spec == Init /\ [][Next]_vars

\* every call of callPropertyDataAPI ends (axios timeout of 10 s), so a
\* handler that can take a step eventually takes it
LiveBodies ==
  {b \in RequestBodies :
     /\ b.postalCode.v \in {<<>>, <<"-">>, <<"A", "1", "-", "1", "A", "A">>,
                            <<"A", "A", "1", "A", " ", "1", "A", "A">>}
     /\ b.propertyType \in {JString("flat"), JString("castle")}
     /\ b.bedrooms \in {JUndefined, JString("3")}}

InitLive ==
  /\ reqs \in [Requests -> {NewHandler(b) : b \in LiveBodies}]
  /\ form = InitialForm(EmptyFormData)

SpecLive == InitLive /\ [][Next]_vars /\ WF_vars(Next)

\* the handler up to its first Gateway call, over every raw string
InitPostcode ==
  /\ reqs \in [Requests -> {NewHandler(b) : b \in PostcodeBodies}]
  /\ form = InitialForm(EmptyFormData)

NextPostcode == \E r \in Requests : Receive(r)

SpecPostcode == InitPostcode /\ [][NextPostcode]_vars

\* two requests in flight at once: express runs one handler per request and
\* interleaves them at their awaits
ConcurrentRequests == {1, 2}

ConcurrentBodies ==
  {b \in RequestBodies :
     /\ b.postalCode.v \in {<<"A", "1", "-", "1", "A", "A">>,
                            <<"A", "A", "1", "A", " ", "1", "A", "A">>}
     /\ b.propertyType \in {JString("flat"), JString("castle")}
     /\ b.purpose \in {JString("sale"), JString("rent")}
     /\ b.bedrooms = JString("3")}

\* the outcomes drawn for the calls of concurrent requests
ConcurrentOutcomes ==
  {Resolved([EmptyBody EXCEPT !.rental_demand_rating = "High",
                              !.rent_average = a]) : a \in {Num(5), Num(1000)}}
  \cup {Resolved([EmptyBody EXCEPT !.data = blk]) :
          blk \in DataBlocks \ {NoDataBlock, [NoDataBlock EXCEPT !.present = TRUE]}}
  \cup {Resolved([EmptyBody EXCEPT !.status = "error", !.code = "902",
                                   !.message = MsgType]),
        Rejected("ERR_BAD_REQUEST", TRUE,
                 [EmptyBody EXCEPT !.status = "error", !.code = "902",
                                   !.message = MsgType]),
        Rejected("ECONNABORTED", FALSE, NullBody)}

\* the step just taken by request r drew its outcome from ConcurrentOutcomes
DrawnFromConcurrent(r) ==
  LET h == reqs'[r]
  IN h.outcomes # <<>> => h.outcomes[Len(h.outcomes)] \in ConcurrentOutcomes

InitConcurrent ==
  /\ reqs \in [ConcurrentRequests -> {NewHandler(b) : b \in ConcurrentBodies}]
  /\ form = InitialForm(EmptyFormData)

NextConcurrent ==
  \E r \in ConcurrentRequests :
    \/ Receive(r)
    \/ Try1Response(r) /\ DrawnFromConcurrent(r)
    \/ Try2Response(r) /\ DrawnFromConcurrent(r)
    \/ Try3Response(r) /\ DrawnFromConcurrent(r)
    \/ SaleResponse(r) /\ DrawnFromConcurrent(r)
    \/ FallbackResponse(r) /\ DrawnFromConcurrent(r)

SpecConcurrent == InitConcurrent /\ [][NextConcurrent]_vars

(***************************************************************************)
(* Actions of the form, and the form together with the route               *)
(***************************************************************************)
\* handleSubmit stopped by one of its checks: alert(...) and return
SubmitRejected ==
  /\ ~form.loading
  /\ RequiredFilled(form.formData)
  /\ ClientCheck(form.formData) # ""
  /\ form' = [form EXCEPT !.alert = ClientCheck(form.formData)]
  /\ UNCHANGED reqs

\* handleSubmit from its entry to await fetch(...); the submit button is
\* disabled while loading
Submit ==
  /\ ~form.loading
  /\ RequiredFilled(form.formData)
  /\ ClientCheck(form.formData) = ""
  /\ form' = [form EXCEPT !.loading = TRUE, !.pc = "fetch",
                          !.payload = <<BuildPayload(form.formData)>>]
  /\ reqs' = Append(reqs, NewHandler(BodyOf(BuildPayload(form.formData))))

\* the catch and finally blocks of handleSubmit
CatchAndFinally(f) ==
  [f EXCEPT !.valuation = <<>>, !.showResult = TRUE, !.loading = FALSE,
            !.pc = "idle", !.payload = <<>>, !.res = <<>>]

\* fetch resolves with the response of the route: on to await res.json()
FetchResolved(r) ==
  /\ form.pc = "fetch"
  /\ reqs[r].pc = "done" /\ reqs[r].sent # <<>>
  /\ form' = [form EXCEPT !.pc = "json",
                          !.res = <<ResponseOf(reqs[r].sent[1])>>]
  /\ reqs' = <<>>

\* fetch rejects (the server cannot be reached or the connection is lost)
FetchRejected ==
  /\ form.pc = "fetch"
  /\ form' = CatchAndFinally(form)
  /\ reqs' = <<>>

\* res.json() resolves, and the data is kept whatever res.ok is
JsonResolved_NoOkTest ==
  /\ form.pc = "json"
  /\ form' = [form EXCEPT
                !.valuation = <<form.res[1].data>>,
                !.showResult = TRUE, !.loading = FALSE, !.pc = "idle",
                !.payload = <<>>, !.res = <<>>]
  /\ UNCHANGED reqs

\* res.json() resolves: lines 69-75, then finally
JsonResolved ==
  /\ form.pc = "json"
  /\ form' = [form EXCEPT
                !.valuation = IF form.res[1].ok THEN <<form.res[1].data>>
                              ELSE <<>>,
                !.showResult = TRUE, !.loading = FALSE, !.pc = "idle",
                !.payload = <<>>, !.res = <<>>]
  /\ UNCHANGED reqs

\* res.json() rejects (the body cannot be read)
JsonRejected ==
  /\ form.pc = "json"
  /\ form' = CatchAndFinally(form)
  /\ UNCHANGED reqs

\* closePopup, from the button of the popup
closePopup ==
  /\ form.showResult
  /\ form' = [form EXCEPT !.showResult = FALSE, !.valuation = <<>>]
  /\ UNCHANGED reqs

InitClient ==
  /\ reqs = <<>>
  /\ form \in {InitialForm(formData) : formData \in FormDatas}

NextClient ==
  \/ SubmitRejected
  \/ Submit
  \/ FetchRejected
  \/ JsonResolved
  \/ JsonRejected
  \/ closePopup
  \/ \E r \in DOMAIN reqs :
       \/ FetchResolved(r)
       \/ Receive(r)
       \/ Try1Response(r) /\ DrawnFromConcurrent(r)
       \/ Try2Response(r) /\ DrawnFromConcurrent(r)
       \/ Try3Response(r) /\ DrawnFromConcurrent(r)
       \/ SaleResponse(r) /\ DrawnFromConcurrent(r)
       \/ FallbackResponse(r) /\ DrawnFromConcurrent(r)

SpecClient == InitClient /\ [][NextClient]_vars

(***************************************************************************)
(* Properties                                                              *)
(***************************************************************************)
IsRent(h) == h.body.purpose = JString("rent")
IsSale(h) == h.body.purpose = JString("sale")

TierRank(tier) == CASE tier = "try1" -> 1 [] tier = "try2" -> 2
                    [] tier = "try3" -> 3 [] OTHER -> 0

\* a string without its last character
AllButLast(s) == [i \in 1..(Len(s) - 1) |-> s[i]]

\* the non-Success outcomes the Gateway classifies
IsClassifiedFailure(o) == IsError(o) \/ IsTimeout(o) \/ IsNetworkFailure(o)

\* the query each rent tier is to carry
RentQueryOf(h, c) ==
  CASE c.tier = "try1" -> c.endpoint = "demand-rent" /\ c.postcode = h.outcode
    [] c.tier = "try2" -> c.endpoint = "demand-rent"
                          /\ c.postcode = AllButLast(h.outcode)
    [] c.tier = "try3" -> c.endpoint = "local-market"
                          /\ c.postcode = h.fullPostcode
    [] OTHER -> FALSE

\* C1: the rent tiers are called one at a time, in the order outcode,
\* parent outcode, local-market, each with its own key; a tier is called only
\* after every earlier call ended without Success, so no call follows a Success
C1_RentTiersSequential ==
  \A r \in DOMAIN reqs :
    LET h == reqs[r]
    IN IsRent(h) =>
         /\ Len(h.outcomes) <= Len(h.calls)
         /\ Len(h.calls) <= Len(h.outcomes) + 1
         /\ h.calls # <<>> => h.calls[1].tier = "try1"
         /\ \A j \in 1..Len(h.calls) :
              /\ RentQueryOf(h, h.calls[j])
              /\ \A i \in 1..(j - 1) :
                   /\ TierRank(h.calls[i].tier) < TierRank(h.calls[j].tier)
                   /\ i <= Len(h.outcomes) /\ ~IsSuccess(h.outcomes[i])

\* C1 witness: three calls were made, the first two failed in different ways
\* and the third returned Success
C1_Witness ==
  \E r \in DOMAIN reqs :
    LET h == reqs[r]
    IN /\ IsRent(h) /\ Len(h.calls) = 3 /\ Len(h.outcomes) = 3
       /\ IsTimeout(h.outcomes[1]) /\ IsError(h.outcomes[2])
       /\ IsSuccess(h.outcomes[3])

\* C2: a rent request all of whose calls ended without Success, the last one
\* with an Error, a Timeout or a NetworkFailure, ends with the 404
\* "no rental data" error
C2_AllTiersFailedIsNoData ==
  \A r \in DOMAIN reqs :
    LET h == reqs[r]
    IN (/\ IsRent(h) /\ h.pc = "done" /\ h.calls # <<>>
        /\ \A i \in 1..Len(h.outcomes) : ~IsSuccess(h.outcomes[i])
        /\ IsClassifiedFailure(h.outcomes[Len(h.outcomes)]))
       => h.sent = <<[status |-> NotFound, error |-> ErrNoRent,
                      result |-> NoResult]>>

\* the rent result assembled from a payload
RentResultOf(h, payload) ==
  RentResult([h EXCEPT !.data = payload, !.sent = <<>>]).sent[1].result

\* C3: a rent request that ends with a result has a first call that returned
\* Success, and the result is the one built from that call's payload
C3_ResultFromFirstSuccess ==
  \A r \in DOMAIN reqs :
    LET h == reqs[r]
    IN (IsRent(h) /\ h.pc = "done" /\ h.sent # <<>> /\ h.sent[1].status = OK)
       => \E i \in 1..Len(h.outcomes) :
            /\ IsSuccess(h.outcomes[i])
            /\ \A j \in 1..(i - 1) : ~IsSuccess(h.outcomes[j])
            /\ h.sent[1].result = RentResultOf(h, h.outcomes[i].body)


\* the one further call of the sale fallback: same endpoint, same postcode,
\* max_age = 12, no type filter
IsUntypedRetry(h, c) ==
  /\ c.endpoint = "sold-prices" /\ c.postcode = h.calls[1].postcode
  /\ c.max_age = 12 /\ c.type = ""

\* C4: whenever the first sold-prices call yields the type-unsupported Error,
\* however it is delivered, exactly one further call is made, the untyped
\* retry; if that call succeeds the result names the substitution in
\* propertyType and carries a note
C4_TypeUnsupportedFallsBack ==
  \A r \in DOMAIN reqs :
    LET h == reqs[r]
    IN (IsSale(h) /\ h.outcomes # <<>> /\ IsTypeUnsupported(h.outcomes[1]))
       => /\ Len(h.calls) = 2
          /\ IsUntypedRetry(h, h.calls[2])
          /\ (Len(h.outcomes) = 2 /\ IsSuccess(h.outcomes[2]))
             => /\ h.usedType = "all"
                /\ h.sent # <<>> /\ h.sent[1].status = OK
                /\ h.sent[1].result.propertyType # <<h.body.propertyType.v>>
                /\ h.sent[1].result.note # <<>>

\* C5: a sale request whose first call returned Success makes no second
\* call and answers with the requested property type and a null note
C5_FirstSuccessNoFallback ==
  \A r \in DOMAIN reqs :
    LET h == reqs[r]
    IN (IsSale(h) /\ h.outcomes # <<>> /\ IsSuccess(h.outcomes[1]))
       => /\ Len(h.calls) = 1 /\ Len(h.outcomes) = 1
          /\ h.pc = "done" /\ Len(h.sent) = 1
          /\ h.sent[1].status = OK
          /\ h.sent[1].result.type = "sale"
          /\ h.sent[1].result.propertyType = <<h.body.propertyType.v>>
          /\ h.sent[1].result.note = <<>>

\* C5 witness: a bungalow sale request answered from its first call
C5_Witness ==
  \E r \in DOMAIN reqs :
    LET h == reqs[r]
    IN /\ IsSale(h) /\ h.body.propertyType = JString("bungalow")
       /\ h.outcomes # <<>> /\ IsSuccess(h.outcomes[1])
       /\ h.pc = "done" /\ h.sent # <<>> /\ h.sent[1].status = OK

NoSaleData == <<[status |-> NotFound, error |-> ErrNoSale, result |-> NoResult]>>
Unexpected == <<[status |-> ServerError, error |-> ErrUnexpected, result |-> NoResult]>>

\* C6 as stated: every Error other than type-unsupported, Timeout or
\* NetworkFailure of the first sale call, and every non-Success outcome of
\* the fallback call, ends the request with the 404 "no sale data" error
C6_SaleFailuresAreNoData ==
  \A r \in DOMAIN reqs :
    LET h == reqs[r]
    IN IsSale(h) =>
         /\ (/\ h.outcomes # <<>> /\ IsClassifiedFailure(h.outcomes[1])
             /\ ~IsTypeUnsupported(h.outcomes[1]))
            => h.sent = NoSaleData
         /\ (Len(h.outcomes) = 2 /\ ~IsSuccess(h.outcomes[2]))
            => h.sent = NoSaleData

\* C6 amended: every non-Success outcome of the first sale call other than
\* the type-unsupported Error ends the request with the generic 500 error,
\* and every non-Success outcome of the fallback call ends it with the 404
\* "no sale data" error
C6_SaleFailures ==
  \A r \in DOMAIN reqs :
    LET h == reqs[r]
    IN IsSale(h) =>
         /\ (/\ h.outcomes # <<>> /\ ~IsSuccess(h.outcomes[1])
             /\ ~IsTypeUnsupported(h.outcomes[1]))
            => h.pc = "done" /\ Len(h.calls) = 1 /\ h.sent = Unexpected
         /\ (Len(h.outcomes) = 2 /\ ~IsSuccess(h.outcomes[2]))
            => h.pc = "done" /\ h.sent = NoSaleData

\* C6 witness: the fallback call was made and timed out
C6_Witness ==
  \E r \in DOMAIN reqs :
    LET h == reqs[r]
    IN /\ IsSale(h) /\ Len(h.outcomes) = 2 /\ IsTimeout(h.outcomes[2])
       /\ h.pc = "done"


\* the rejection conditions of section 4.5, on the value a field carries
FieldMissing(x) == x.t = "undefined" \/ x.v = ""
PostalCodeMissing(x) == x.t = "undefined" \/ x.v = <<>>
BedroomsIn1To4(x) == x.t \in {"string", "number"} /\ x.v \in {"1", "2", "3", "4"}

MissingListed(body) ==
  PostalCodeMissing(body.postalCode) \/ FieldMissing(body.propertyType)
  \/ FieldMissing(body.purpose)
PropertyTypeListed(body) ==
  ~(body.propertyType.t = "string" /\ body.propertyType.v \in validPropertyTypes)
PurposeListed(body) ==
  ~(body.purpose.t = "string" /\ body.purpose.v \in {"sale", "rent"})
BedroomsListed(body) ==
  /\ body.purpose = JString("rent")
  /\ (body.bedrooms.t = "undefined" \/ ~BedroomsIn1To4(body.bedrooms))

ListedRejection(body) ==
  MissingListed(body) \/ PropertyTypeListed(body) \/ PurposeListed(body)
  \/ BedroomsListed(body)

\* the errors of the fields that are at fault
FieldErrors(body) ==
  (IF MissingListed(body) THEN {ErrMissing} ELSE {})
  \cup (IF PropertyTypeListed(body) THEN {ErrPropertyType} ELSE {})
  \cup (IF PurposeListed(body) THEN {ErrPurpose} ELSE {})
  \cup (IF BedroomsListed(body) THEN {ErrBedrooms} ELSE {})

ValidationErrors == {ErrMissing, ErrPropertyType, ErrPurpose, ErrBedrooms}

\* C7: a request that meets a rejection condition makes no Gateway call and
\* ends with one 400 error, the error of a field at fault and never the
\* postcode-format error, also when its postcode is malformed
C7_RejectedBeforePostcode ==
  \A r \in DOMAIN reqs :
    LET h == reqs[r]
    IN ListedRejection(h.body) =>
         /\ h.calls = <<>>
         /\ h.pc # "received" =>
              /\ h.pc = "done" /\ Len(h.sent) = 1
              /\ h.sent[1].status = 400
              /\ h.sent[1].error \in FieldErrors(h.body)
              /\ h.sent[1].error # ErrPostcode

\* C7 witness: a rent request without bedrooms and with a postcode that
\* cannot be recovered has been answered
C7_Witness ==
  \E r \in DOMAIN reqs :
    LET h == reqs[r]
    IN /\ IsRent(h) /\ h.body.bedrooms = JUndefined
       /\ h.body.postalCode.v # <<>>
       /\ ~isValidUKPostcode(normalizePostcode(h.body.postalCode.v))
       /\ tryAutoFormatPostcode(h.body.postalCode.v) = <<>>
       /\ h.pc = "done" /\ h.sent # <<>> /\ h.sent[1].error = ErrBedrooms

\* C8: the validator rejects a request exactly when a rejection condition
\* holds; bedrooms 1 to 4 pass in either JSON representation
C8_RejectsExactlyListed ==
  \A r \in DOMAIN reqs :
    LET h == reqs[r]
    IN h.pc # "received" =>
         ((h.sent # <<>> /\ h.sent[1].error \in ValidationErrors)
            <=> ListedRejection(h.body))

\* C9: for a request that passed validation the postcode used is the
\* normalized input if that is valid, else the auto-formatted raw input if
\* there is one, else the request ends with the 400 postcode-format error
\* and without a Gateway call
C9_PostcodeRecovery ==
  \A r \in DOMAIN reqs :
    LET h == reqs[r]
        raw == h.body.postalCode.v
    IN (h.pc # "received"
        /\ ~(h.sent # <<>> /\ h.sent[1].error \in ValidationErrors))
       => IF isValidUKPostcode(normalizePostcode(raw))
          THEN h.fullPostcode = normalizePostcode(raw) /\ h.calls # <<>>
          ELSE IF tryAutoFormatPostcode(raw) # <<>>
          THEN h.fullPostcode = tryAutoFormatPostcode(raw) /\ h.calls # <<>>
          ELSE /\ h.calls = <<>> /\ h.pc = "done"
               /\ h.sent = <<[status |-> 400, error |-> ErrPostcode,
                              result |-> NoResult]>>

\* C9 witness: the normalized input was invalid and the auto-formatted raw
\* input is the postcode of the first call
C9_Witness ==
  \E r \in DOMAIN reqs :
    LET h == reqs[r]
        raw == h.body.postalCode.v
    IN /\ h.calls # <<>>
       /\ ~isValidUKPostcode(normalizePostcode(raw))
       /\ \E i \in 1..Len(raw) : raw[i] = "-"
       /\ IsSale(h) /\ h.calls[1].postcode = tryAutoFormatPostcode(raw)

\* the canonical grammar, upper case only
CanonicalUpper(c) == c \in {"A", "R"}
CanonicalDigit(c) == c \in {"1"}
IsCanonical(s) ==
  \E n \in {1, 2}, m \in {0, 1} :
    /\ Len(s) = n + m + 5
    /\ \A i \in 1..n : CanonicalUpper(s[i])
    /\ CanonicalDigit(s[n + 1]) \/ s[n + 1] = "R"
    /\ m = 1 => CanonicalDigit(s[n + 2]) \/ CanonicalUpper(s[n + 2])
    /\ s[Len(s) - 3] = " "
    /\ CanonicalDigit(s[Len(s) - 2])
    /\ CanonicalUpper(s[Len(s) - 1]) /\ CanonicalUpper(s[Len(s)])

\* C10: a postcode that reaches the Gateway stage is canonical: upper case,
\* one space, an Outcode of 2 to 4 characters before the space; the first
\* rent call is keyed by that Outcode
C10_CanonicalAtGateway ==
  \A r \in DOMAIN reqs :
    LET h == reqs[r]
        pc == h.fullPostcode
    IN h.calls # <<>> =>
         /\ IsCanonical(pc)
         /\ Cardinality({i \in 1..Len(pc) : pc[i] = " "}) = 1
         /\ h.outcode = SubSeq(pc, 1, Len(pc) - 4)
         /\ Len(h.outcode) >= 2 /\ Len(h.outcode) <= 4
         /\ IsRent(h) => /\ h.calls[1].endpoint = "demand-rent"
                         /\ h.calls[1].postcode = h.outcode

\* C10 witness: a rent request whose lower-case unspaced input was
\* auto-formatted to a postcode with a four-character Outcode
C10_Witness ==
  \E r \in DOMAIN reqs :
    LET h == reqs[r]
        raw == h.body.postalCode.v
    IN /\ IsRent(h) /\ h.calls # <<>> /\ Len(h.outcode) = 4
       /\ \E i \in 1..Len(raw) : raw[i] = "r"
       /\ \A i \in 1..Len(raw) : raw[i] # " "


\* a string without its whitespace
RECURSIVE StripWhitespace(_)
StripWhitespace(s) ==
  IF s = <<>> THEN <<>>
  ELSE IF Head(s) \in {" ", "\t"} THEN StripWhitespace(Tail(s))
  ELSE <<Head(s)>> \o StripWhitespace(Tail(s))

\* the upper-case characters of a raw input with one space before the last three
CanonicalOf(raw) ==
  LET core == ToUpperCase(StripWhitespace(raw))
  IN IF Len(core) < 3 THEN core
     ELSE [i \in 1..(Len(core) + 1) |->
             IF i <= Len(core) - 3 THEN core[i]
             ELSE IF i = Len(core) - 2 THEN " " ELSE core[i - 1]]

\* raw differs from a valid postcode only by letter case and whitespace
IsVariantOfValid(raw) == IsCanonical(CanonicalOf(raw))

\* C11: every input that differs from a valid postcode only by letter case and
\* whitespace is accepted (in a request whose fields are valid) with that
\* postcode in canonical form, and
\* auto-formatting a postcode the handler accepted, or one that autoFormat
\* returned, gives the same string again
C11_CanonicalForm ==
  \A r \in DOMAIN reqs :
    LET h == reqs[r]
        raw == h.body.postalCode.v
        auto == tryAutoFormatPostcode(raw)
    IN /\ (/\ h.pc # "received" /\ IsVariantOfValid(raw)
           /\ ~(h.sent # <<>> /\ h.sent[1].error \in ValidationErrors))
          => /\ h.calls # <<>>
             /\ h.fullPostcode = CanonicalOf(raw)
             /\ tryAutoFormatPostcode(h.fullPostcode) = h.fullPostcode
       /\ auto # <<>> => tryAutoFormatPostcode(auto) = auto

\* C11 witness: a lower-case input with its space in the wrong place was
\* accepted
C11_Witness ==
  \E r \in DOMAIN reqs :
    LET h == reqs[r]
        raw == h.body.postalCode.v
    IN /\ h.calls # <<>> /\ Len(raw) >= 6
       /\ raw[2] = " " /\ raw[Len(raw) - 3] # " "
       /\ \E i \in 1..Len(raw) : raw[i] = "r"
       /\ h.fullPostcode = CanonicalOf(raw)


\* C12 as stated: for the postal code of a request the handler has taken up,
\* isValid(normalize(raw)) holds exactly when raw is a valid postcode up to
\* letter case and whitespace placement
C12_ValidIffAnyVariant ==
  \A r \in DOMAIN reqs :
    LET raw == reqs[r].body.postalCode.v
    IN reqs[r].pc # "received"
       => (isValidUKPostcode(normalizePostcode(raw)) <=> IsVariantOfValid(raw))

\* raw is a valid postcode up to letter case, whitespace around it and the
\* width of the one whitespace run before its last three characters
IsSpacedVariant(raw) ==
  \E a, b, c \in 0..Len(raw) :
    /\ a < b /\ b < c /\ c + 3 <= Len(raw)
    /\ \A i \in 1..a : raw[i] \in {" ", "\t"}
    /\ \A i \in (a + 1)..b : raw[i] \notin {" ", "\t"}
    /\ \A i \in (b + 1)..c : raw[i] \in {" ", "\t"}
    /\ \A i \in (c + 4)..Len(raw) : raw[i] \in {" ", "\t"}
    /\ IsCanonical(ToUpperCase(SubSeq(raw, a + 1, b) \o <<" ">>
                               \o SubSeq(raw, c + 1, c + 3)))

\* C12 amended: isValid(normalize(raw)) holds exactly for the inputs that are
\* a valid postcode up to letter case, surrounding whitespace and the width
\* of the whitespace run between the outward and the inward part
C12_ValidIffSpacedVariant ==
  \A r \in DOMAIN reqs :
    LET raw == reqs[r].body.postalCode.v
    IN reqs[r].pc # "received"
       => (isValidUKPostcode(normalizePostcode(raw)) <=> IsSpacedVariant(raw))

\* C12 witness: a lower-case input with a run of two spaces in the right
\* place was accepted as normalized
C12_Witness ==
  \E r \in DOMAIN reqs :
    LET h == reqs[r]
        raw == h.body.postalCode.v
    IN /\ h.calls # <<>> /\ Len(raw) >= 7
       /\ raw[Len(raw) - 3] = " " /\ raw[Len(raw) - 4] = " "
       /\ \E i \in 1..Len(raw) : raw[i] = "r"
       /\ h.fullPostcode = normalizePostcode(raw)
       /\ isValidUKPostcode(normalizePostcode(raw))


\* the number a payload value stands for, when it is numeric
IsNumericValue(x) == x.t = "number" \/ (x.t = "string" /\ x.s \in {"5", "1000"})
NumberOf(x) == IF x.t = "number" THEN x.n ELSE IF x.s = "5" THEN 5 ELSE 1000

\* the multiplier table of section 4.3, in tenths, by the bedrooms sent
TableTenths(bedrooms) ==
  CASE bedrooms = JString("1") -> 8 [] bedrooms = JString("2") -> 10
    [] bedrooms = JString("3") -> 13 [] bedrooms = JString("4") -> 16
    [] OTHER -> 10

\* n is base x tenths / 10 rounded to the nearest integer, halves up
IsRounded(n, base, tenths) ==
  10 * n - 5 <= base * tenths /\ base * tenths < 10 * n + 5

\* C13: a rent result built from a payload with a numeric base rent has
\* averageRent = round(base x multiplier[bedrooms]) (800, 1000, 1300, 1600
\* for base 1000), originalAverageRent = the base as sent, and a note
C13_RentAdjustment ==
  \A r \in DOMAIN reqs :
    LET h == reqs[r]
        base == h.data.rent_average
    IN (/\ IsRent(h) /\ h.pc = "done" /\ h.sent # <<>> /\ h.sent[1].status = OK
        /\ IsNumericValue(base))
       => LET result == h.sent[1].result
          IN /\ result.averageRent.t = "number"
             /\ IsRounded(result.averageRent.n, NumberOf(base),
                          TableTenths(h.body.bedrooms))
             /\ NumberOf(base) = 1000 =>
                  result.averageRent.n =
                    (CASE h.body.bedrooms.v = "1" -> 800
                       [] h.body.bedrooms.v = "2" -> 1000
                       [] h.body.bedrooms.v = "3" -> 1300
                       [] h.body.bedrooms.v = "4" -> 1600)
             /\ result.originalAverageRent = base
             /\ result.note # <<>>


\* C14: in a rent result averageRent is "N/A" with a null note exactly when
\* the payload's rent average is absent or non-numeric, every numeric value
\* (0 included) gives a numeric averageRent and a note, and every other
\* missing payload field appears as "N/A"
C14_NotAvailableExactlyWhenAbsent ==
  \A r \in DOMAIN reqs :
    LET h == reqs[r]
        base == h.data.rent_average
    IN (IsRent(h) /\ h.pc = "done" /\ h.sent # <<>> /\ h.sent[1].status = OK)
       => LET result == h.sent[1].result
          IN /\ (result.averageRent = Str("N/A") /\ result.note = <<>>)
                <=> ~IsNumericValue(base)
             /\ IsNumericValue(base)
                => result.averageRent.t = "number" /\ result.note # <<>>
             /\ (h.data.rental_demand_rating = "" /\ h.data.demand_rating = "")
                => result.rentalDemand = "N/A"
             /\ h.data.total_for_rent = Undefined
                => result.totalForRent = Str("N/A")
             /\ h.data.days_on_market = Undefined
                => result.daysOnMarket = Str("N/A")
             /\ h.data.months_of_inventory = Undefined
                => result.monthsOfInventory = Str("N/A")
             /\ h.data.yield_average = Undefined => result.yield = Str("N/A")


\* a result envelope or an error envelope
IsResultEnvelope(m) ==
  m.status = 200 /\ m.error = "" /\ m.result.type \in {"sale", "rent"}
IsErrorEnvelope(m) ==
  m.status \in {400, 404, 500} /\ m.error # "" /\ m.result = NoResult

AtMostOneEnvelope ==
  \A r \in DOMAIN reqs :
    LET h == reqs[r]
    IN /\ Len(h.sent) <= 1
       /\ h.pc = "done" <=> Len(h.sent) = 1
       /\ \A i \in 1..Len(h.sent) :
            IsResultEnvelope(h.sent[i]) \/ IsErrorEnvelope(h.sent[i])

AllAnswered == \A r \in DOMAIN reqs : reqs[r].pc = "done"

\* C15: whatever the body and the upstream outcomes, a request never has more
\* than one response, each response is a result envelope (200) or an error
\* envelope (400, 404, 500), the handler stops only with a response sent, and
\* every request is eventually answered
C15_ExactlyOneResponse == []AtMostOneEnvelope /\ <>AllAnswered

\* C15 witness: a local-market call resolved with a null body and the request
\* was answered with the 500 error
C15_Witness ==
  \E r \in DOMAIN reqs :
    LET h == reqs[r]
    IN /\ Len(h.outcomes) = 3 /\ IsMalformed(h.outcomes[3])
       /\ h.pc = "done" /\ h.sent # <<>> /\ h.sent[1].status = 500


\* the value of a field of the data block, or its default when absent
FieldOr(x, default) == IF x = Undefined THEN default ELSE x

\* the payload of the last call of a request
LastPayload(h) == h.outcomes[Len(h.outcomes)].body

ParentCallMade(h) ==
  Len(h.calls) >= 2 /\ h.calls[2].endpoint = "demand-rent"

\* the outcode call of a rent request has been answered without Success
OutcodeCallFailed(h) == Len(h.outcomes) >= 1 /\ ~IsSuccess(h.outcomes[1])

\* C17: the parent-outcode call is made exactly when the outcode call was
\* non-Success and the outcode has more than 3 characters, and is keyed by
\* the outcode without its last character; with an outcode of 3 or fewer
\* characters the call after a non-Success outcode call is the local-market
\* call
C17_ParentOutcodeCall ==
  \A r \in DOMAIN reqs :
    LET h == reqs[r]
    IN IsRent(h) =>
         /\ ParentCallMade(h) <=> (OutcodeCallFailed(h) /\ Len(h.outcode) > 3)
         /\ ParentCallMade(h) => h.calls[2].postcode = AllButLast(h.outcode)
         /\ \A j \in 1..Len(h.calls) :
              (j # 2 /\ h.calls[j].endpoint = "demand-rent")
                => j = 1 /\ h.calls[j].postcode = h.outcode
         /\ (OutcodeCallFailed(h) /\ Len(h.outcode) <= 3)
              => /\ Len(h.calls) >= 2
                 /\ h.calls[2].endpoint = "local-market"
                 /\ h.calls[2].postcode = h.fullPostcode

\* C17 witness: a four-character outcode whose call timed out was followed by
\* the call keyed by its first three characters
C17_Witness ==
  \E r \in DOMAIN reqs :
    LET h == reqs[r]
    IN /\ IsRent(h) /\ Len(h.outcode) = 4
       /\ Len(h.outcomes) >= 1 /\ IsTimeout(h.outcomes[1])
       /\ ParentCallMade(h) /\ Len(h.calls[2].postcode) = 3

\* a three-character outcode whose call failed was followed by local-market
C17_ShortOutcode ==
  \E r \in DOMAIN reqs :
    LET h == reqs[r]
    IN /\ IsRent(h) /\ Len(h.outcode) = 3 /\ OutcodeCallFailed(h)
       /\ Len(h.calls) >= 2 /\ h.calls[2].endpoint = "local-market"


\* the request was rejected by validation or postcode recovery
IsRejected(h) == h.sent # <<>> /\ h.sent[1].status = BadRequest

\* what a call asks of the provider
QueryOf(c) == <<c.endpoint, c.postcode, c.type>>

\* C18: a rejected request makes no call, a request that passed validation
\* and postcode recovery at least one, a rent request at most 3 and a sale
\* request at most 2, and no two calls of a request are of the same tier or
\* carry the same query
C18_CallsBounded ==
  \A r \in DOMAIN reqs :
    LET h == reqs[r]
    IN /\ IsRejected(h) => Len(h.calls) = 0
       /\ (h.pc # "received" /\ ~IsRejected(h)) => Len(h.calls) >= 1
       /\ IsRent(h) => Len(h.calls) <= 3
       /\ IsSale(h) => Len(h.calls) <= 2
       /\ \A i, j \in 1..Len(h.calls) :
            i < j => /\ h.calls[i].tier # h.calls[j].tier
                     /\ QueryOf(h.calls[i]) # QueryOf(h.calls[j])

\* C18 witness: a rent request ended after three calls, none of them answered
\* with Success
C18_Witness ==
  \E r \in DOMAIN reqs :
    LET h == reqs[r]
    IN /\ IsRent(h) /\ h.pc = "done" /\ Len(h.calls) = 3
       /\ \A i \in 1..3 : ~IsSuccess(h.outcomes[i])
       /\ h.sent # <<>> /\ h.sent[1].status = NotFound

\* a sale request ended after two calls
C18_SaleTwoCalls ==
  \E r \in DOMAIN reqs :
    LET h == reqs[r] IN IsSale(h) /\ h.pc = "done" /\ Len(h.calls) = 2


RentEndpoints == {"demand-rent", "local-market"}
SaleEndpoints == {"sold-prices"}

\* the result fields only the rent path fills
RentFields(result) ==
  <<result.rentalDemand, result.totalForRent, result.daysOnMarket,
    result.monthsOfInventory, result.averageRent,
    result.originalAverageRent, result.yield>>

\* the result fields only the sale path fills
SaleFields(result) ==
  <<result.propertyType, result.average, result.range70, result.range90,
    result.pointsAnalysed>>

\* C19: a sale request calls only the sold-prices endpoint and is answered
\* only with a sale result or an error; a rent request calls only the
\* demand-rent and local-market endpoints and is answered only with a rent
\* result or an error
C19_NoCrossPurpose ==
  \A r \in DOMAIN reqs :
    LET h == reqs[r]
    IN /\ IsSale(h) =>
            /\ \A i \in 1..Len(h.calls) : h.calls[i].endpoint \in SaleEndpoints
            /\ \A k \in 1..Len(h.sent) :
                 \/ IsErrorEnvelope(h.sent[k])
                 \/ /\ h.sent[k].result.type = "sale"
                    /\ RentFields(h.sent[k].result) = RentFields(NoResult)
       /\ IsRent(h) =>
            /\ \A i \in 1..Len(h.calls) : h.calls[i].endpoint \in RentEndpoints
            /\ \A k \in 1..Len(h.sent) :
                 \/ IsErrorEnvelope(h.sent[k])
                 \/ /\ h.sent[k].result.type = "rent"
                    /\ SaleFields(h.sent[k].result) = SaleFields(NoResult)

\* C19 witness: a sale request whose typed call was refused for its type was
\* answered from the untyped call with a sale result
C19_Witness ==
  \E r \in DOMAIN reqs :
    LET h == reqs[r]
    IN /\ IsSale(h) /\ h.pc = "done" /\ Len(h.calls) = 2
       /\ ~IsSuccess(h.outcomes[1])
       /\ h.sent # <<>> /\ h.sent[1].status = OK
       /\ h.sent[1].result.type = "sale"

\* a rent request answered with a rent result from the local-market call
C19_RentFromLocalMarket ==
  \E r \in DOMAIN reqs :
    LET h == reqs[r]
    IN /\ IsRent(h) /\ h.pc = "done" /\ Len(h.calls) >= 2
       /\ h.calls[Len(h.calls)].endpoint = "local-market"
       /\ h.sent # <<>> /\ h.sent[1].status = OK


\* every call of the request has been answered, none with Success
AllCallsFailed(h) ==
  /\ Len(h.outcomes) = Len(h.calls)
  /\ \A i \in 1..Len(h.outcomes) : ~IsSuccess(h.outcomes[i])

\* the rent tiers that apply to the request, in order
ApplicableRentTiers(h) ==
  IF Len(h.outcode) > 3
  THEN << <<"demand-rent", h.outcode>>, <<"demand-rent", AllButLast(h.outcode)>>,
          <<"local-market", h.fullPostcode>> >>
  ELSE << <<"demand-rent", h.outcode>>, <<"local-market", h.fullPostcode>> >>

\* the sale tiers: the typed call, then the untyped one
ApplicableSaleTiers(h) ==
  << <<"sold-prices", h.fullPostcode, h.body.propertyType.v>>,
     <<"sold-prices", h.fullPostcode, "">> >>

\* C20: a 404 is sent only after every tier that applies to the request was
\* called and ended non-Success (for sale: the typed call with a
\* type-unsupported Error, then the untyped call), with the message of the
\* request's own purpose; a 400 is sent only with a validation or postcode
\* message, before any Gateway call
C20_StatusTaxonomy ==
  \A r \in DOMAIN reqs :
    LET h == reqs[r]
    IN \A k \in 1..Len(h.sent) :
         /\ (h.sent[k].status = NotFound /\ IsRent(h)) =>
              /\ h.sent[k].error = ErrNoRent
              /\ AllCallsFailed(h)
              /\ [i \in 1..Len(h.calls) |->
                    <<h.calls[i].endpoint, h.calls[i].postcode>>]
                 = ApplicableRentTiers(h)
         /\ (h.sent[k].status = NotFound /\ IsSale(h)) =>
              /\ h.sent[k].error = ErrNoSale
              /\ AllCallsFailed(h)
              /\ [i \in 1..Len(h.calls) |-> QueryOf(h.calls[i])]
                 = ApplicableSaleTiers(h)
              /\ IsTypeUnsupported(h.outcomes[1])
         /\ h.sent[k].status = NotFound => (IsRent(h) \/ IsSale(h))
         /\ h.sent[k].status = BadRequest =>
              /\ h.sent[k].error \in ValidationErrors \cup {ErrPostcode}
              /\ h.calls = <<>>
              /\ h.outcomes = <<>>

\* C20 witness: a sale request was answered 404 after its typed call was
\* refused for its type and its untyped call timed out
C20_Witness ==
  \E r \in DOMAIN reqs :
    LET h == reqs[r]
    IN /\ IsSale(h) /\ h.pc = "done" /\ Len(h.outcomes) = 2
       /\ IsTypeUnsupported(h.outcomes[1]) /\ IsTimeout(h.outcomes[2])
       /\ h.sent # <<>> /\ h.sent[1].status = NotFound

\* a rent request with a short outcode was answered 404 after two calls
C20_RentShortOutcode ==
  \E r \in DOMAIN reqs :
    LET h == reqs[r]
    IN /\ IsRent(h) /\ Len(h.outcode) <= 3 /\ Len(h.calls) = 2
       /\ h.sent # <<>> /\ h.sent[1].status = NotFound


\* what a handler at an await does with the outcome of its call
HandlerStep(h, o) ==
  CASE h.pc = "try1" -> RentTry1Done(h, o)
    [] h.pc = "try2" -> RentTry2Done(h, o)
    [] h.pc = "try3" -> RentTry3Done(h, o)
    [] h.pc = "sale1" -> SaleFirstDone(h, o)
    [] h.pc = "sale2" -> SaleFallbackDone(h, o)
    [] OTHER -> h

\* the handler after the outcomes outs, fed to it one by one
RECURSIVE Replay(_, _)
Replay(h, outs) ==
  IF outs = <<>> THEN h ELSE Replay(HandlerStep(h, Head(outs)), Tail(outs))

\* a request with this body running alone against these upstream outcomes
RunAlone(body, outs) == Replay(Entry(NewHandler(body)), outs)

\* C21: under every interleaving of two in-flight requests, the calls and
\* the response of each request are those of the same body running alone
\* against the same upstream outcomes
C21_NoInterference ==
  \A r \in DOMAIN reqs :
    LET h == reqs[r]
    IN IF h.pc = "received" THEN h = NewHandler(h.body)
       ELSE LET alone == RunAlone(h.body, h.outcomes)
            IN /\ h.calls = alone.calls
               /\ h.sent = alone.sent
               /\ h = alone

\* C21 witness: both requests have ended, each after at least two calls made
\* while the other was in flight, with different responses
C21_Witness ==
  /\ DOMAIN reqs = ConcurrentRequests
  /\ \A r \in ConcurrentRequests :
       reqs[r].pc = "done" /\ Len(reqs[r].outcomes) >= 2
  /\ IsRent(reqs[1]) /\ IsRent(reqs[2])
  /\ IsSuccess(reqs[1].outcomes[1]) = FALSE
  /\ reqs[1].sent # reqs[2].sent

\* both requests are waiting for an upstream answer at the same time
C21_BothInFlight ==
  /\ DOMAIN reqs = ConcurrentRequests
  /\ reqs[1].pc = "try2" /\ reqs[2].pc = "sale2"


\* the payload of the submission in flight, if any
PayloadsInFlight == {form.payload[i] : i \in DOMAIN form.payload}

\* C22: every payload handleSubmit sends is one the route's validator and
\* postcode step accept, so it is never answered with 400; and the payload
\* carries bedrooms or floorArea only when its purpose is rent
C22_ClientServerAgreement ==
  /\ \A payload \in PayloadsInFlight :
       /\ (payload.bedrooms # JUndefined \/ payload.floorArea # JUndefined)
            => payload.purpose = JString("rent")
       /\ form.pc = "fetch" =>
            \E r \in DOMAIN reqs : reqs[r].body = BodyOf(payload)
  /\ \A r \in DOMAIN reqs :
       LET h == reqs[r]
       IN /\ ValidationError(h.body) = ""
          /\ ResolvePostcode(h.body.postalCode.v) # <<>>
          /\ h.pc # "received" =>
               /\ h.calls # <<>>
               /\ \A k \in 1..Len(h.sent) : h.sent[k].status # BadRequest

\* C22 witness: the route has accepted a rent payload for a maisonette with
\* 4 bedrooms and a floor area, and has called the Gateway for it
C22_Witness ==
  /\ form.pc = "fetch"
  /\ \E payload \in PayloadsInFlight :
       /\ payload.propertyType = JString("maisonette")
       /\ payload.purpose = JString("rent")
       /\ payload.bedrooms = JString("4")
       /\ payload.floorArea = JString("250")
  /\ \E r \in DOMAIN reqs : reqs[r].calls # <<>>


\* a handleSubmit that passed its checks has not completed yet
InFlight == form.pc \in {"fetch", "json"}

\* a step that completes a submission
Completion == JsonResolved \/ JsonRejected \/ FetchRejected

\* a step of handleSubmit that ends at one of its checks
FailedCheck == form'.alert # form.alert \/ SubmitRejected

\* C23: loading is true only while a submission that passed the client-side
\* checks is in flight; a submission that fails a check leaves loading,
\* showResult and valuation as they were and sends no request; a completed
\* submission leaves loading false and showResult true, with valuation
\* non-null exactly when the response was ok; closePopup sets showResult to
\* false and valuation to null
C23_FormStateMachine ==
  /\ [](form.loading <=> InFlight)
  /\ [](form.pc = "fetch" <=> reqs # <<>>)
  /\ [][FailedCheck =>
          /\ form'.loading = form.loading
          /\ form'.showResult = form.showResult
          /\ form'.valuation = form.valuation
          /\ form'.pc = form.pc
          /\ reqs' = reqs]_vars
  /\ [][Completion =>
          /\ ~form'.loading /\ form'.showResult /\ ~InFlight'
          /\ form'.valuation # <<>>
               <=> (JsonResolved /\ form.res[1].ok)
          /\ form'.valuation # <<>>
               => form'.valuation = <<form.res[1].data>>]_vars
  /\ [][(InFlight /\ ~InFlight') => Completion]_vars
  /\ [][(closePopup \/ (form.showResult /\ ~form'.showResult)) =>
          /\ ~form'.showResult /\ form'.valuation = <<>>
          /\ form'.loading = form.loading]_vars

\* C23 witness: a submission has completed with an ok response, and its
\* result is shown
C23_Witness ==
  /\ form.pc = "idle" /\ ~form.loading /\ form.showResult
  /\ form.valuation # <<>>
  /\ form.valuation[1].result.type = "rent"

\* a submission has completed without an ok response
C23_ErrorShown ==
  form.pc = "idle" /\ form.showResult /\ form.valuation = <<>>

\* a check of handleSubmit has stopped a submission
C23_Alerted == form.alert = AlertPostcode /\ reqs = <<>>

====
